---------------------------- MODULE Spec2Model ----------------------------
(***************************************************************************)
(* web_blast.py: one run of the command-line client of the BLAST web       *)
(* service.  The run parses its arguments, reads the query files, submits  *)
(* the search, sleeps and polls the job status, fetches the result         *)
(* document, aggregates the first hit and prints one record.               *)
(*                                                                         *)
(* Text (arguments, file contents, response bodies, printed fields) is a   *)
(* sequence of one-character strings, so that the regular expressions and  *)
(* the string conversions of the code are computed character by character. *)
(* A Python value that may be None is a sequence of length 0 (None) or 1.  *)
(* Durations are counted in half seconds: time.sleep(rtoe / 2) is rtoe     *)
(* half seconds and time.sleep(5) is ten.                                  *)
(*                                                                         *)
(* Spec is the whole run.  FrontEndSpec is the run up to the submission,   *)
(* over more command lines; ResultSpec is the run of a job that is ready   *)
(* at once, over more result documents; FairSpec is the run when every     *)
(* call returns.                                                           *)
(***************************************************************************)
EXTENDS Integers, Sequences, FiniteSets, TLC

VARIABLES
    argv,            \* sys.argv[1:]
    pc,              \* position of the run in main()
    output_format,   \* main: output_format
    program,         \* main: program (after the alias mapping)
    database,        \* main: database
    queries,         \* main: queries
    params_extra,    \* main: params_extra
    encoded_query,   \* main: encoded_query
    first,           \* main: first
    basename,        \* main: basename
    sequence,        \* main: sequence
    qi,              \* number of query files the loop of main has processed
    rid,             \* main: rid (None until parsed)
    rtoe,            \* main: rtoe (None until parsed)
    r,               \* main: r, the last response received
    trace,           \* what the run did to the outside, in order
    exit_code,       \* the exit status of the process, -1 while it runs
    fault            \* the exception that ended the run, "none" otherwise

vars == <<argv, pc, output_format, program, database, queries, params_extra,
          encoded_query, first, basename, sequence, qi, rid, rtoe, r, trace,
          exit_code, fault>>

---------------------------------------------------------------------------
(* Bounds of the model *)

\* the poll loop is unbounded in the code; the model stops issuing status
\* queries after this many
MaxPolls == 3

---------------------------------------------------------------------------
(* Python values *)

None == <<>>

Some(x) == <<x>>

\* character classes of the re module, on the characters the model uses
Whitespace == {" ", "\t", "\n", "\r"}

Digits == <<"0", "1", "2", "3", "4", "5", "6", "7", "8", "9">>

IsDigit(c) == \E d \in 1..10 : Digits[d] = c

DigitValue(c) == (CHOOSE d \in 1..10 : Digits[d] = c) - 1

\* int(s) for a non-empty sequence of decimal digits
RECURSIVE ParseInt(_)
ParseInt(s) ==
    IF s = <<>> THEN 0
    ELSE 10 * ParseInt(SubSeq(s, 1, Len(s) - 1)) + DigitValue(s[Len(s)])

\* str(n) for an integer n >= 0
RECURSIVE StrNat(_)
StrNat(n) ==
    IF n < 10 THEN <<Digits[n + 1]>>
    ELSE StrNat(n \div 10) \o <<Digits[(n % 10) + 1]>>

\* the literal lit occurs in text t at position i
LitAt(t, i, lit) ==
    /\ i >= 1
    /\ i + Len(lit) - 1 <= Len(t)
    /\ \A k \in 1..Len(lit) : t[i + k - 1] = lit[k]

IsSpace(c) == c \in Whitespace

\* character c is in the class \s, \S or \d
InClass(c, class) ==
    CASE class = "\\s" -> IsSpace(c)
      [] class = "\\S" -> ~IsSpace(c)
      [] class = "\\d" -> IsDigit(c)

\* the position after the longest run, from position i, of characters of
\* a class: a greedy  \s*, \S+ or \d+
RunEnd(t, i, class) ==
    CHOOSE j \in i..(Len(t) + 1) :
        /\ \A k \in i..(j - 1) : InClass(t[k], class)
        /\ (j = Len(t) + 1 \/ ~InClass(t[j], class))

\* ^ under re.M: the start of the text or the position after a newline
LineStart(t, i) == i = 1 \/ t[i - 1] = "\n"

---------------------------------------------------------------------------
(* parse_arguments *)

\* parse_arguments with the test len(args) < 3 written len(args) < 2
parse_arguments_two(av) ==
    LET flag == Len(av) >= 1 /\ av[1] = <<"-","-","o","u","t","p","u","t">>
        args == IF flag /\ Len(av) >= 2 THEN SubSeq(av, 3, Len(av)) ELSE av
        fmt  == IF flag /\ Len(av) >= 2 THEN av[2] ELSE <<"c","s","v">>
    IN  IF flag /\ Len(av) < 2
          THEN [ok |-> FALSE, msg |-> "USAGE"]
        ELSE IF flag /\ fmt \notin {<<"c","s","v">>, <<"j","s","o","n">>}
          THEN [ok |-> FALSE, msg |-> "Invalid output format. Use 'csv' or 'json'.\n"]
        ELSE IF Len(args) < 2
          THEN [ok |-> FALSE, msg |-> "USAGE"]
        ELSE [ok |-> TRUE, output_format |-> fmt, program |-> args[1],
              database |-> args[2], queries |-> SubSeq(args, 3, Len(args))]

\* the outcome of parse_arguments(argv): either sys.exit(1) after writing
\* msg to stderr, or the tuple it returns
parse_arguments(av) ==
    LET flag == Len(av) >= 1 /\ av[1] = <<"-","-","o","u","t","p","u","t">>
        args == IF flag /\ Len(av) >= 2 THEN SubSeq(av, 3, Len(av)) ELSE av
        fmt  == IF flag /\ Len(av) >= 2 THEN av[2] ELSE <<"c","s","v">>
    IN  IF flag /\ Len(av) < 2
          THEN [ok |-> FALSE, msg |-> "USAGE"]
        ELSE IF flag /\ fmt \notin {<<"c","s","v">>, <<"j","s","o","n">>}
          THEN [ok |-> FALSE, msg |-> "Invalid output format. Use 'csv' or 'json'.\n"]
        ELSE IF Len(args) < 3
          THEN [ok |-> FALSE, msg |-> "USAGE"]
        ELSE [ok |-> TRUE, output_format |-> fmt, program |-> args[1],
              database |-> args[2], queries |-> SubSeq(args, 3, Len(args))]

---------------------------------------------------------------------------
(* The query files *)

\* the files of the working directory: the text read from each in text
\* mode, or an open() that raises
Files ==
    { [path |-> <<"s","e","q","/","d","n","a","1",".","f","a","s","t","a">>, readable |-> TRUE, text |-> <<">","s","1"," ","x","\n","A","C","G","T","\n","A","C","\n">>],
      [path |-> <<"p",".","f","a">>, readable |-> TRUE, text |-> <<"M","K","V","\n","L","L">>],
      [path |-> <<"h",".","f","a">>, readable |-> TRUE, text |-> <<">","o","n","l","y","\n">>],
      [path |-> <<"m",",","x",".","f","a","s","t","a">>, readable |-> TRUE, text |-> <<"A","C","\n",">","x","\n","G","T","\n">>],
      [path |-> <<"d",".","1","/","n">>, readable |-> TRUE, text |-> <<"G","G","\n">>],
      [path |-> <<"e",".","f","a">>, readable |-> TRUE, text |-> <<>>],
      [path |-> <<"m","i","s","s","i","n","g",".","f","a">>, readable |-> FALSE, text |-> <<>>] }

FileAt(path) == CHOOSE f \in Files : f.path = path

\* fh.readlines(), and the iteration over fh: the text cut after each
\* newline, every line keeping its newline
RECURSIVE ReadLines(_)
ReadLines(text) ==
    IF text = <<>> THEN <<>>
    ELSE LET n == IF \E i \in 1..Len(text) : text[i] = "\n"
                    THEN CHOOSE i \in 1..Len(text) :
                            text[i] = "\n" /\ \A k \in 1..(i - 1) : text[k] # "\n"
                    ELSE Len(text)
         IN  <<SubSeq(text, 1, n)>> \o ReadLines(SubSeq(text, n + 1, Len(text)))

\* urllib.parse.quote of one character, for the characters of Files:
\* letters, digits and _.-~/ are kept, the others percent-encoded
QuoteChar(c) ==
    CASE c = "\n" -> <<"%","0","A">>
      [] c = " "  -> <<"%","2","0">>
      [] c = ">"  -> <<"%","3","E">>
      [] OTHER    -> <<c>>

RECURSIVE quote(_)
quote(line) ==
    IF line = <<>> THEN <<>> ELSE QuoteChar(Head(line)) \o quote(Tail(line))

\* the loop "for line in fh: encoded_query += quote(line)"
RECURSIVE QuoteLines(_)
QuoteLines(lines) ==
    IF lines = <<>> THEN <<>> ELSE quote(Head(lines)) \o QuoteLines(Tail(lines))

\* ''.join(lines)
RECURSIVE Join(_)
Join(lines) == IF lines = <<>> THEN <<>> ELSE Head(lines) \o Join(Tail(lines))

\* os.path.basename: what follows the last slash
PathBasename(path) ==
    LET slashes == {i \in 1..Len(path) : path[i] = "/"}
    IN  IF slashes = {} THEN path
        ELSE SubSeq(path, (CHOOSE i \in slashes : \A k \in slashes : k <= i) + 1,
                    Len(path))

\* os.path.splitext(name)[0]: the name up to its last dot, unless only
\* dots precede that dot
SplitextRoot(name) ==
    LET dots == {i \in 1..Len(name) : name[i] = "."}
        last == CHOOSE i \in dots : \A k \in dots : k <= i
    IN  IF dots = {} THEN name
        ELSE IF \E k \in 1..(last - 1) : name[k] # "." THEN SubSeq(name, 1, last - 1)
        ELSE name

IsLineEnd(c) == c \in {"\r", "\n"}

\* read_first_fasta_info(path) for a readable file
read_first_fasta_info(path) ==
    LET lines == ReadLines(FileAt(path).text)
        body  == IF lines # <<>> /\ LitAt(lines[1], 1, <<">">>) THEN Tail(lines) ELSE lines
    IN  [base |-> SplitextRoot(PathBasename(path)),
         seq  |-> SelectSeq(Join(body), LAMBDA c : ~IsLineEnd(c))]

---------------------------------------------------------------------------
(* The program alias mapping of main *)

\* AliasProgram with the extra parameter of an alias left out
AliasProgramNoExtras(p) ==
    IF p = <<"m","e","g","a","b","l","a","s","t">> THEN [program |-> <<"b","l","a","s","t","n">>, params_extra |-> <<>>]
    ELSE IF p = <<"r","p","s","b","l","a","s","t">> THEN [program |-> <<"b","l","a","s","t","p">>, params_extra |-> <<>>]
    ELSE [program |-> p, params_extra |-> <<>>]

AliasProgram(p) ==
    IF p = <<"m","e","g","a","b","l","a","s","t">> THEN [program |-> <<"b","l","a","s","t","n">>, params_extra |-> [MEGABLAST |-> <<"o","n">>]]
    ELSE IF p = <<"r","p","s","b","l","a","s","t">> THEN [program |-> <<"b","l","a","s","t","p">>, params_extra |-> [SERVICE |-> <<"r","p","s","b","l","a","s","t">>]]
    ELSE [program |-> p, params_extra |-> <<>>]

---------------------------------------------------------------------------
(* The submission response *)

\* Ok with every status the server can send taken for a success
OkBelow600(resp) == resp.status_code < 600

\* r.ok of the requests library
Ok(resp) == resp.status_code < 400

\* re.search(r'^\s*KEY\s*=\s*(VALUE+)', t, re.M) tried at position i: the
\* capture, or None.  Every part of the pattern is greedy and no two
\* adjacent parts share a character, so the match is the greedy one.
MatchKeyValue(t, i, key, class) ==
    LET a == RunEnd(t, i, "\\s")
        b == RunEnd(t, a + Len(key), "\\s")
        c == RunEnd(t, b + 1, "\\s")
        d == RunEnd(t, c, class)
    IN  IF ~LineStart(t, i) \/ ~LitAt(t, a, key) THEN None
        ELSE IF ~LitAt(t, b, <<"=">>) THEN None
        ELSE IF d = c THEN None
        ELSE Some(SubSeq(t, c, d - 1))

\* the capture of the leftmost match, or None
SearchKeyValue(t, key, class) ==
    LET hits == {i \in 1..(Len(t) + 1) : MatchKeyValue(t, i, key, class) # None}
    IN  IF hits = {} THEN None
        ELSE MatchKeyValue(t, CHOOSE i \in hits : \A k \in hits : i <= k, key, class)

\* rid_match.group(1) if rid_match else None
ParseRid(t) == SearchKeyValue(t, <<"R","I","D">>, "\\S")

\* int(rtoe_match.group(1)) if rtoe_match else None
ParseRtoe(t) ==
    LET m == SearchKeyValue(t, <<"R","T","O","E">>, "\\d")
    IN  IF m = None THEN None ELSE Some(ParseInt(m[1]))

---------------------------------------------------------------------------
(* The status response *)

\* re.search(r'\s+Status=NAME', t): one whitespace character, at least,
\* right before the literal
HasStatus(t, name) ==
    LET lit == <<"S","t","a","t","u","s","=">> \o name
    IN  \E i \in 1..Len(t) : IsSpace(t[i]) /\ LitAt(t, i + 1, lit)

\* Classify with the READY test moved to the front of the chain
ClassifyReadyFirst(t) ==
    IF HasStatus(t, <<"R","E","A","D","Y">>) THEN "READY"
    ELSE IF HasStatus(t, <<"W","A","I","T","I","N","G">>) THEN "WAITING"
    ELSE IF HasStatus(t, <<"F","A","I","L","E","D">>) THEN "FAILED"
    ELSE IF HasStatus(t, <<"U","N","K","N","O","W","N">>) THEN "UNKNOWN"
    ELSE "NONE"

\* the chain of tests of the poll loop, in the order of the code
Classify(t) ==
    IF HasStatus(t, <<"W","A","I","T","I","N","G">>) THEN "WAITING"
    ELSE IF HasStatus(t, <<"F","A","I","L","E","D">>) THEN "FAILED"
    ELSE IF HasStatus(t, <<"U","N","K","N","O","W","N">>) THEN "UNKNOWN"
    ELSE IF HasStatus(t, <<"R","E","A","D","Y">>) THEN "READY"
    ELSE "NONE"

---------------------------------------------------------------------------
(* The result document *)

RECURSIVE Sum(_)
Sum(s) == IF s = <<>> THEN 0 ELSE Head(s) + Sum(Tail(s))

\* Max with the first number taken for the largest
MaxIsFirst(s) == s[1]

RECURSIVE Max(_)
Max(s) ==
    IF Len(s) = 1 THEN s[1]
    ELSE LET m == Max(Tail(s)) IN IF Head(s) >= m THEN Head(s) ELSE m

Column(hsps, field) == [i \in 1..Len(hsps) |-> hsps[i][field]]

\* RoundHalfEven with the fraction dropped
RoundDown(n, d) == n \div d

\* the integer nearest to n / d, a tie going to the even one: what the
\* format specifications .0f and .2f do with the quotient the code computes
RoundHalfEven(n, d) ==
    LET q == n \div d
        m == n % d
    IN  IF 2 * m > d \/ (2 * m = d /\ q % 2 = 1) THEN q + 1 ELSE q

\* f"{(100 * a / b):.0f}%"
FormatCover(a, b) == StrNat(RoundHalfEven(100 * a, b)) \o <<"%">>

\* FormatIdentity with the digits after the second decimal cut off
FormatIdentityTruncated(a, b) ==
    LET h == (10000 * a) \div b
    IN  StrNat(h \div 100) \o <<".">> \o StrNat((h % 100) \div 10) \o StrNat(h % 10) \o <<"%">>

\* f"{(100 * a / b):.2f}%": exact while b < 4000, where the only ties are
\* quotients a float holds exactly
FormatIdentity(a, b) ==
    LET h == RoundHalfEven(10000 * a, b)
    IN  StrNat(h \div 100) \o <<".">> \o StrNat((h % 100) \div 10) \o StrNat(h % 10) \o <<"%">>

\* main from r.json() to the result dict: the exception raised, or the dict
Aggregate(doc) ==
    IF doc = None THEN [fault |-> "JSONDecodeError"]
    ELSE IF doc[1].BlastOutput2 = <<>> THEN [fault |-> "IndexError"]
    ELSE LET search == doc[1].BlastOutput2[1]
             query_len == search.query_len
         IN
         IF search.hits = <<>> THEN [fault |-> "IndexError"]
         ELSE LET hit == search.hits[1]
                  hsps == hit.hsps
                  total_identity == Sum(Column(hsps, "identity"))
                  total_align_length == Sum(Column(hsps, "align_len"))
              IN
              IF hit.description = <<>> THEN [fault |-> "IndexError"]
              ELSE IF hsps = <<>> THEN [fault |-> "ValueError"]
              ELSE IF query_len = 0 \/ total_align_length = 0
                THEN [fault |-> "ZeroDivisionError"]
              ELSE [fault |-> "none",
                    total_score |-> Sum(Column(hsps, "score")),
                    total_identity |-> total_identity,
                    total_align_length |-> total_align_length,
                    result |->
                      [basename |-> basename,
                       description |-> hit.description[1].title,
                       scientific_name |-> hit.description[1].sciname,
                       max_score |-> Max(Column(hsps, "bit_score")),
                       total_score |-> Sum(Column(hsps, "bit_score")),
                       query_cover |-> FormatCover(total_align_length, query_len),
                       e_value |-> hsps[1].evalue,
                       percent_identity |-> FormatIdentity(total_identity, total_align_length),
                       accession_length |-> hit.len,
                       accession |-> hit.description[1].accession,
                       query_length |-> query_len,
                       sequence |-> sequence]]

---------------------------------------------------------------------------
(* The formatter *)

\* IsSpecial with the semicolon forgotten
IsSpecialNoSemicolon(c) == c \in {",", "\""}

\* the characters csv_escape looks for
IsSpecial(c) == c \in {",", ";", "\""}

RECURSIVE DoubleQuotes(_)
DoubleQuotes(s) ==
    IF s = <<>> THEN <<>>
    ELSE (IF Head(s) = "\"" THEN <<"\"","\"">> ELSE <<Head(s)>>) \o DoubleQuotes(Tail(s))

\* csv_escape(value) for value of string form s
csv_escape(s) ==
    IF \E i \in 1..Len(s) : IsSpecial(s[i]) THEN <<"\"">> \o DoubleQuotes(s) \o <<"\"">>
    ELSE s

\* str(value) of a string or None
StrOptional(v) == IF v = None THEN <<"N","o","n","e">> ELSE v[1]

RECURSIVE JoinComma(_)
JoinComma(fields) ==
    IF Len(fields) = 1 THEN fields[1]
    ELSE fields[1] \o <<",">> \o JoinComma(Tail(fields))

\* the line print(",".join(fields)) writes
CsvLine(res) ==
    JoinComma(<<csv_escape(res.basename), csv_escape(res.description),
                csv_escape(StrOptional(res.scientific_name)),
                csv_escape(StrNat(res.max_score)), csv_escape(StrNat(res.total_score)),
                csv_escape(res.query_cover), csv_escape(res.e_value),
                csv_escape(res.percent_identity), csv_escape(StrNat(res.accession_length)),
                csv_escape(res.accession), csv_escape(StrNat(res.query_length)),
                csv_escape(res.sequence)>>) \o <<"\n">>

---------------------------------------------------------------------------
(* The inputs of a run: the command line and what the service answers *)

Prefixes ==
    { <<>>, <<<<"-","-","o","u","t","p","u","t">>>>, <<<<"-","-","o","u","t","p","u","t">>, <<"j","s","o","n">>>>, <<<<"-","-","o","u","t","p","u","t">>, <<"c","s","v">>>>,
      <<<<"-","-","o","u","t","p","u","t">>, <<"x","m","l">>>> }

Programs == { <<"b","l","a","s","t","n">>, <<"m","e","g","a","b","l","a","s","t">>, <<"r","p","s","b","l","a","s","t">> }

Paths == { <<"s","e","q","/","d","n","a","1",".","f","a","s","t","a">>, <<"p",".","f","a">>, <<"m","i","s","s","i","n","g",".","f","a">> }

\* no argument up to two query files: every program with one file, and
\* the files in every order with one program
Positionals ==
    { <<>> }
    \cup { <<p>> : p \in Programs }
    \cup { <<p, <<"n","t">>>> : p \in Programs }
    \cup { <<p, <<"n","t">>, <<"s","e","q","/","d","n","a","1",".","f","a","s","t","a">>>> : p \in Programs }
    \cup { <<<<"b","l","a","s","t","n">>, <<"n","t">>, f>> : f \in Paths }
    \cup { <<<<"b","l","a","s","t","n">>, <<"n","t">>, f, g>> : f \in Paths \ { <<"m","i","s","s","i","n","g",".","f","a">> }, g \in Paths }
    \cup { <<<<"b","l","a","s","t","n">>, <<"n","t">>, <<"-","-","o","u","t","p","u","t">>, <<"j","s","o","n">>>> }

ArgvSet == { a \o b : a \in Prefixes, b \in Positionals }

StatusCodes == { 200, 503 }

SubmitBodies ==
    { <<"Q","B","l","a","s","t","I","n","f","o","B","e","g","i","n","\n"," "," "," "," ","R","I","D"," ","="," ","A","B","C","1","2","3","\n"," "," "," "," ","R","T","O","E"," ","="," ","1","5","\n","Q","B","l","a","s","t","I","n","f","o","E","n","d","\n">>,
      <<"R","I","D"," ","="," ","Q","1","\n","R","T","O","E"," ","="," ","0","\n">>,
      <<"R","T","O","E","=","0","\n","R","I","D","=","Q","1","\n">>,
      <<"\n","\n"," "," ","R","I","D"," ","="," ","Q","1"," "," ","\n","\t","R","T","O","E"," ","="," ","0","\n">>,
      <<"R","I","D"," ","="," ","Q","1","\n","R","I","D"," ","="," ","Q","2","\n","R","T","O","E"," ","="," ","0","\n","R","T","O","E"," ","="," ","3","\n">>,
      <<"R","I","D"," ","="," ","Q","1","\n">>,
      <<"R","T","O","E"," ","="," ","1","5","\n">>,
      <<>>,
      <<"x","R","I","D"," ","="," ","Q","1","\n","R","T","O","E"," ","="," ","1","5","\n">>,
      <<"R","I","D"," ","="," ","Q","1","\n","R","T","O","E"," ","="," ","s","o","o","n","\n">>,
      <<"R","I","D"," ","=","\n","R","T","O","E"," ","="," ","1","5","\n">>,
      <<"R","I","D"," ","="," ","Q","1","\n","R","T","O","E"," ","=","\n","0","\n">> }

SubmitResponses == [status_code : StatusCodes, text : SubmitBodies]

StatusNames == << <<"W","A","I","T","I","N","G">>, <<"F","A","I","L","E","D">>, <<"U","N","K","N","O","W","N">>, <<"R","E","A","D","Y">> >>

\* the lines "\tStatus=NAME\n" of the names numbered in order
RECURSIVE StatusLines(_)
StatusLines(order) ==
    IF order = <<>> THEN <<>>
    ELSE <<"\t","S","t","a","t","u","s","=">> \o StatusNames[Head(order)] \o <<"\n">> \o StatusLines(Tail(order))

\* the numbers of a set, ascending
RECURSIVE Ascending(_)
Ascending(S) ==
    IF S = {} THEN <<>>
    ELSE LET m == CHOOSE x \in S : \A y \in S : x <= y
         IN  <<m>> \o Ascending(S \ {m})

Reverse(s) == [i \in 1..Len(s) |-> s[Len(s) + 1 - i]]

\* every set of status lines, in the order of the names and in the
\* opposite order, and bodies that hold no status line
StatusBodies ==
    { <<"Q","B","l","a","s","t","I","n","f","o","B","e","g","i","n","\n">> \o StatusLines(Ascending(S)) \o <<"Q","B","l","a","s","t","I","n","f","o","E","n","d","\n">> :
        S \in SUBSET (1..4) }
    \cup { <<"Q","B","l","a","s","t","I","n","f","o","B","e","g","i","n","\n">> \o StatusLines(Reverse(Ascending(S))) \o <<"Q","B","l","a","s","t","I","n","f","o","E","n","d","\n">> :
        S \in SUBSET (1..4) }
    \cup { <<"S","t","a","t","u","s","=","R","E","A","D","Y","\n">>, <<>>, <<"\t","s","t","a","t","u","s","=","r","e","a","d","y","\n">> }

\* every body with a success status, and with every status the bodies of
\* one status line and the empty body
StatusResponses ==
    [status_code : {200}, text : StatusBodies]
    \cup [status_code : StatusCodes,
          text : { <<"Q","B","l","a","s","t","I","n","f","o","B","e","g","i","n","\n">> \o StatusLines(<<k>>) \o <<"Q","B","l","a","s","t","I","n","f","o","E","n","d","\n">> :
                     k \in 1..4 } \cup { <<>> }]

Hsp(b, s, i, a, e) ==
    [bit_score |-> b, score |-> s, identity |-> i, align_len |-> a, evalue |-> e]

HitTwoHsps ==
    [description |-> <<[title |-> <<"G","e","n","e",","," ","\"","X","\""," ","v","a","r","i","a","n","t">>, sciname |-> Some(<<"H","o","m","o"," ","s","a","p","i","e","n","s">>),
                        accession |-> <<"N","M","_","1">>]>>,
     len |-> 1200,
     hsps |-> <<Hsp(100, 200, 90, 100, <<"1","e","-","2","0">>), Hsp(80, 150, 70, 80, <<"3","e","-","0","5">>)>>]

HitOneHsp ==
    [description |-> <<[title |-> <<"p","l","a","i","n">>, sciname |-> None, accession |-> <<"X","P","_","2">>]>>,
     len |-> 300,
     hsps |-> <<Hsp(50, 60, 45, 50, <<"0",".","0","0","1">>)>>]

Document(hits, query_len) ==
    Some([BlastOutput2 |-> <<[hits |-> hits, query_len |-> query_len]>>])

\* r.json() of the result response: a document, or None for a body that
\* is no JSON
Documents ==
    { None,
      Some([BlastOutput2 |-> <<>>]),
      Document(<<>>, 200),
      Document(<<HitTwoHsps>>, 200),
      Document(<<HitOneHsp, HitTwoHsps>>, 400),
      Document(<<[HitOneHsp EXCEPT !.hsps = <<>>]>>, 200),
      Document(<<[HitOneHsp EXCEPT !.description = <<>>]>>, 200),
      Document(<<HitOneHsp>>, 0),
      Document(<<[HitOneHsp EXCEPT !.hsps = <<Hsp(0, 0, 0, 0, <<"1","0",".","0">>)>>]>>, 200) }

ResultResponses == [status_code : StatusCodes, json : Documents]

---------------------------------------------------------------------------
(* What the run does to the outside *)

Opened(path) == [kind |-> "open", path |-> path]

Stderr(msg, args) == [kind |-> "stderr", msg |-> msg, args |-> args]

Stdout(format, record, text) ==
    [kind |-> "stdout", format |-> format, record |-> record, text |-> text]

Request(params) == [kind |-> "request", params |-> params]

Slept(halfsecs) == [kind |-> "sleep", halfsecs |-> halfsecs]

\* sys.exit(code), or the exception that ends the process with status 1
Exit(code, exception) ==
    /\ pc' = "done"
    /\ exit_code' = code
    /\ fault' = exception

\* the seconds of time.sleep(5) in the poll loop
PollInterval == 5

\* the status queries issued so far
StatusQueries ==
    SelectSeq(trace, LAMBDA e : e.kind = "request" /\ "FORMAT_OBJECT" \in DOMAIN e.params)

---------------------------------------------------------------------------
(* The run *)

\* the state main starts in, for one of the command lines of arguments
InitFrom(arguments) ==
    /\ argv \in arguments
    /\ pc = "parse_arguments"
    /\ output_format = None
    /\ program = None
    /\ database = None
    /\ queries = <<>>
    /\ params_extra = <<>>
    /\ encoded_query = <<>>
    /\ first = TRUE
    /\ basename = <<>>
    /\ sequence = <<>>
    /\ qi = 0
    /\ rid = None
    /\ rtoe = None
    /\ r = None
    /\ trace = <<>>
    /\ exit_code = -1
    /\ fault = "none"

Init == InitFrom(ArgvSet)

\* main up to the loop over the query files: parse_arguments, the alias
\* mapping and the initial values of the loop
ParseArguments ==
    /\ pc = "parse_arguments"
    /\ LET parsed == parse_arguments(argv)
       IN  IF ~parsed.ok
             THEN /\ trace' = Append(trace, Stderr(parsed.msg, <<>>))
                  /\ Exit(1, "none")
                  /\ UNCHANGED <<output_format, program, database, queries, params_extra>>
             ELSE /\ output_format' = Some(parsed.output_format)
                  /\ program' = Some(AliasProgram(parsed.program).program)
                  /\ params_extra' = AliasProgram(parsed.program).params_extra
                  /\ database' = Some(parsed.database)
                  /\ queries' = parsed.queries
                  /\ pc' = "read_queries"
                  /\ UNCHANGED <<trace, exit_code, fault>>
    /\ UNCHANGED <<argv, encoded_query, first, basename, sequence, qi, rid, rtoe, r>>

\* ExtractsMetadata with the flag never consulted
ExtractsMetadataAlways(flag) == TRUE

\* the test "if first:" of the loop
ExtractsMetadata(flag) == flag

\* one iteration of "for q in queries"
ReadQuery ==
    /\ pc = "read_queries"
    /\ qi < Len(queries)
    /\ LET q == queries[qi + 1]
       IN  IF ~(\E f \in Files : f.path = q /\ f.readable)
             THEN /\ trace' = Append(trace, Opened(q))
                  /\ Exit(1, "FileNotFoundError")
                  /\ UNCHANGED <<encoded_query, first, basename, sequence, qi>>
             ELSE /\ encoded_query' = encoded_query \o QuoteLines(ReadLines(FileAt(q).text))
                  /\ IF ExtractsMetadata(first)
                       THEN /\ basename' = read_first_fasta_info(q).base
                            /\ sequence' = read_first_fasta_info(q).seq
                            /\ first' = FALSE
                            /\ trace' = trace \o <<Opened(q), Opened(q)>>
                       ELSE /\ trace' = Append(trace, Opened(q))
                            /\ UNCHANGED <<basename, sequence, first>>
                  /\ qi' = qi + 1
                  /\ pc' = IF qi + 1 = Len(queries) THEN "submit" ELSE "read_queries"
                  /\ UNCHANGED <<exit_code, fault>>
    /\ UNCHANGED <<argv, output_format, program, database, queries, params_extra,
                   rid, rtoe, r>>

\* the parameters of the submission: args after args.update(params_extra)
SubmitArgs ==
    params_extra @@ [CMD |-> <<"P","u","t">>, PROGRAM |-> program[1], DATABASE |-> database[1],
                     QUERY |-> encoded_query]

\* the submission request and the parsing of its response, the service
\* answering with one of responses
SubmitFrom(responses) ==
    /\ pc = "submit"
    /\ \E resp \in responses :
        /\ r' = Some(resp)
        /\ IF ~Ok(resp)
             THEN /\ trace' = trace \o <<Request(SubmitArgs),
                                         Stderr("Failed to submit request: HTTP {}\n",
                                                <<resp.status_code>>)>>
                  /\ Exit(1, "none")
                  /\ UNCHANGED <<rid, rtoe>>
           ELSE IF ParseRid(resp.text) = None \/ ParseRtoe(resp.text) = None
             THEN /\ trace' = trace \o <<Request(SubmitArgs),
                                         Stderr("Could not parse RID or RTOE\n", <<>>)>>
                  /\ Exit(1, "none")
                  /\ rid' = ParseRid(resp.text)
                  /\ rtoe' = ParseRtoe(resp.text)
           ELSE /\ rid' = ParseRid(resp.text)
                /\ rtoe' = ParseRtoe(resp.text)
                /\ trace' = trace \o
                     <<Request(SubmitArgs),
                       Stderr("Polling response with ID {} and estimated response time {} sec\n",
                              <<ParseRid(resp.text)[1], ParseRtoe(resp.text)[1]>>)>>
                /\ pc' = "initial_sleep"
                /\ UNCHANGED <<exit_code, fault>>
    /\ UNCHANGED <<argv, output_format, program, database, queries, params_extra,
                   encoded_query, first, basename, sequence, qi>>

Submit == SubmitFrom(SubmitResponses)

\* InitialDelay with the whole estimate slept, not half of it
InitialDelayWhole(estimate) == 2 * estimate

\* the half seconds of rtoe / 2 seconds
InitialDelay(estimate) == estimate

\* time.sleep(rtoe / 2)
InitialSleep ==
    /\ pc = "initial_sleep"
    /\ trace' = Append(trace, Slept(InitialDelay(rtoe[1])))
    /\ pc' = "poll_sleep"
    /\ UNCHANGED <<argv, output_format, program, database, queries, params_extra,
                   encoded_query, first, basename, sequence, qi, rid, rtoe, r,
                   exit_code, fault>>

\* time.sleep(5) at the head of the poll loop
PollSleep ==
    /\ pc = "poll_sleep"
    /\ Len(StatusQueries) < MaxPolls
    /\ trace' = Append(trace, Slept(2 * PollInterval))
    /\ pc' = "status_query"
    /\ UNCHANGED <<argv, output_format, program, database, queries, params_extra,
                   encoded_query, first, basename, sequence, qi, rid, rtoe, r,
                   exit_code, fault>>

PollArgs == [CMD |-> <<"G","e","t">>, FORMAT_OBJECT |-> <<"S","e","a","r","c","h","I","n","f","o">>, RID |-> rid[1]]

\* StatusMessages with the FAILED branch printing nothing
StatusMessagesQuietFailure(status) ==
    CASE status = "WAITING" -> <<Stderr("Searching...\n", <<>>)>>
      [] status = "UNKNOWN" -> <<Stderr("Search {} expired.\n", <<rid[1]>>)>>
      [] status = "READY" -> <<Stderr("Search complete, retrieving results...\n", <<>>)>>
      [] OTHER -> <<>>

\* what each branch of the poll loop prints before it continues, exits or
\* breaks; the final sys.exit(5) prints nothing
StatusMessages(status) ==
    CASE status = "WAITING" -> <<Stderr("Searching...\n", <<>>)>>
      [] status = "FAILED" ->
           <<Stderr("Search {} failed; please report to blast-help@ncbi.nlm.nih.gov.\n",
                    <<rid[1]>>)>>
      [] status = "UNKNOWN" -> <<Stderr("Search {} expired.\n", <<rid[1]>>)>>
      [] status = "READY" -> <<Stderr("Search complete, retrieving results...\n", <<>>)>>
      [] OTHER -> <<>>

\* Continues with the expired job retried as well
ContinuesOnUnknown(status) == status \in {"WAITING", "UNKNOWN"}

\* Continues with the failed job polled again
ContinuesOnFailed(status) == status \in {"WAITING", "FAILED"}

\* the branch that ends in "continue"
Continues(status) == status = "WAITING"

\* Breaks with the failed job leaving the loop as the ready one does
BreaksOnFailure(status) == status \in {"READY", "FAILED"}

\* the branch that ends in "break"
Breaks(status) == status = "READY"

\* StatusExitCode with the codes of FAILED and UNKNOWN exchanged
StatusExitCodeSwapped(status) ==
    CASE status = "FAILED" -> 3
      [] status = "UNKNOWN" -> 4
      [] OTHER -> 5

\* the sys.exit of the other branches
StatusExitCode(status) ==
    CASE status = "FAILED" -> 4
      [] status = "UNKNOWN" -> 3
      [] OTHER -> 5

\* StatusBody with the body of a response that is not ok discarded
StatusBodyIfOk(resp) == IF Ok(resp) THEN resp.text ELSE <<>>

\* what the poll loop reads of a status response: r.text
StatusBody(resp) == resp.text

\* the status query of the poll loop and the branch on its response, the
\* service answering with one of responses
StatusQueryFrom(responses) ==
    /\ pc = "status_query"
    /\ \E resp \in responses :
        /\ r' = Some(resp)
        /\ LET status == Classify(StatusBody(resp))
           IN  /\ trace' = Append(trace, Request(PollArgs)) \o StatusMessages(status)
               /\ IF Continues(status)
                    THEN pc' = "poll_sleep" /\ UNCHANGED <<exit_code, fault>>
                  ELSE IF Breaks(status)
                    THEN pc' = "fetch_result" /\ UNCHANGED <<exit_code, fault>>
                  ELSE Exit(StatusExitCode(status), "none")
    /\ UNCHANGED <<argv, output_format, program, database, queries, params_extra,
                   encoded_query, first, basename, sequence, qi, rid, rtoe>>

StatusQuery == StatusQueryFrom(StatusResponses)

ResultArgs == [CMD |-> <<"G","e","t">>, FORMAT_TYPE |-> <<"J","S","O","N","2","_","S">>, RID |-> rid[1]]

\* ResultOutput with the CSV line printed before the aggregation is known
\* to have succeeded
ResultOutputEarly(agg) ==
    IF agg.fault # "none" THEN <<Stdout("csv", <<>>, <<>>)>>
    ELSE IF output_format = Some(<<"j","s","o","n">>) THEN <<Stdout("json", agg.result, <<>>)>>
    ELSE <<Stdout("csv", agg.result, CsvLine(agg.result))>>

\* what the run prints once the result dict is built; an exception raised
\* before that point leaves standard output untouched
ResultOutput(agg) ==
    IF agg.fault # "none" THEN <<>>
    ELSE IF output_format = Some(<<"j","s","o","n">>) THEN <<Stdout("json", agg.result, <<>>)>>
    ELSE <<Stdout("csv", agg.result, CsvLine(agg.result))>>

\* the result fetch, the aggregation and the output, the service answering
\* with one of responses
FetchResultFrom(responses) ==
    /\ pc = "fetch_result"
    /\ \E resp \in responses :
        /\ r' = Some(resp)
        /\ LET agg == Aggregate(resp.json)
           IN  /\ trace' = Append(trace, Request(ResultArgs)) \o ResultOutput(agg)
               /\ IF agg.fault # "none" THEN Exit(1, agg.fault) ELSE Exit(0, "none")
    /\ UNCHANGED <<argv, output_format, program, database, queries, params_extra,
                   encoded_query, first, basename, sequence, qi, rid, rtoe>>

FetchResult == FetchResultFrom(ResultResponses)

Next ==
    \/ ParseArguments
    \/ ReadQuery
    \/ Submit
    \/ InitialSleep
    \/ PollSleep
    \/ StatusQuery
    \/ FetchResult

Spec == Init /\ [][Next]_vars

\* command lines for the runs whose progress is checked: one file and
\* CSV, two files and JSON, an unreadable file, a usage error
FairArgv ==
    { <<<<"b","l","a","s","t","n">>, <<"n","t">>, <<"s","e","q","/","d","n","a","1",".","f","a","s","t","a">>>>,
      <<<<"-","-","o","u","t","p","u","t">>, <<"j","s","o","n">>, <<"m","e","g","a","b","l","a","s","t">>, <<"n","t">>, <<"p",".","f","a">>, <<"s","e","q","/","d","n","a","1",".","f","a","s","t","a">>>>,
      <<<<"b","l","a","s","t","n">>, <<"n","t">>, <<"m","i","s","s","i","n","g",".","f","a">>>>,
      <<<<"-","-","o","u","t","p","u","t">>>> }

FairInit == InitFrom(FairArgv)

\* the run when every call returns: requests.get, time.sleep, open and
\* print return, so the step the run is at is eventually taken
FairSpec == FairInit /\ [][Next]_vars /\ WF_vars(Next)

---------------------------------------------------------------------------
(* The run up to the submission, over more command lines *)

\* the longest list of query files of these command lines
MaxQueryFiles == 2

\* program names: the aliases, and names that are no alias
ProgramStrings ==
    Programs \cup { <<"b","l","a","s","t","p">>, <<"t","b","l","a","s","t","n">>, <<"M","E","G","A","B","L","A","S","T">>, <<"m","e","g","a","b","l","a","s">>, <<>>, <<"r","p","s","b","l","a","s","t","n">> }

Databases == { <<"n","t">>, <<"n","r">> }

\* every list of one to MaxQueryFiles of the files, the unreadable one
\* included
FileLists == UNION { [1..n -> { f.path : f \in Files }] : n \in 1..MaxQueryFiles }

\* every program name with every database and either way to choose the
\* format, and one program with every list of files
FrontEndArgv ==
    { a \o <<p, d, <<"s","e","q","/","d","n","a","1",".","f","a","s","t","a">>>> :
        a \in { <<>>, <<<<"-","-","o","u","t","p","u","t">>, <<"j","s","o","n">>>> }, p \in ProgramStrings, d \in Databases }
    \cup { <<<<"b","l","a","s","t","n">>, <<"n","t">>>> \o l : l \in FileLists }

FrontEndInit == InitFrom(FrontEndArgv)

\* main from its start to the parsing of the submission response
FrontEndNext ==
    \/ ParseArguments
    \/ ReadQuery
    \/ Submit

FrontEndSpec == FrontEndInit /\ [][FrontEndNext]_vars

---------------------------------------------------------------------------
(* The run with a job that is ready at once, over more result documents *)

\* the longest list of alignment segments of these documents
MaxHsps == 3

\* segments whose bit scores, raw scores and e-values are ordered in
\* three different ways
SegmentPool ==
    { Hsp(100, 200, 90, 100, <<"1","e","-","2","0">>), Hsp(80, 150, 70, 80, <<"3","e","-","0","5">>),
      Hsp(120, 90, 10, 30, <<"1","e","-","5","0">>) }

HspLists == UNION { [1..n -> SegmentPool] : n \in 1..MaxHsps }

Hit(title, sciname, hsps) ==
    [description |-> <<[title |-> title, sciname |-> sciname, accession |-> <<"N","M","_","1">>]>>,
     len |-> 1200,
     hsps |-> hsps]

\* a first hit with every list of segments; the same with a second hit
\* after it; the same with a second report after the first
AggregationDocuments ==
    { Document(<<Hit(<<"p","l","a","i","n">>, Some(<<"H","o","m","o"," ","s","a","p","i","e","n","s">>), l)>>, 200) : l \in HspLists }
    \cup { Document(<<Hit(<<"p","l","a","i","n">>, Some(<<"H","o","m","o"," ","s","a","p","i","e","n","s">>), l), HitOneHsp>>, 200) :
             l \in { h \in HspLists : Len(h) = 2 } }
    \cup { Some([BlastOutput2 |->
                   <<[hits |-> <<Hit(<<"p","l","a","i","n">>, Some(<<"H","o","m","o"," ","s","a","p","i","e","n","s">>), l)>>, query_len |-> 200],
                     [hits |-> <<HitTwoHsps>>, query_len |-> 300]>>]) :
             l \in { h \in HspLists : Len(h) = 1 } }

\* the hit with two segments, for queries of several lengths
ScenarioDocuments == { Document(<<HitTwoHsps>>, q) : q \in {90, 180, 200, 400} }

\* the largest alignment length and the largest query length of the
\* documents that PercentageDocuments enumerates
MaxAlignLen == 8

MaxQueryLen == 8

\* a hit with one segment of the given identity count and alignment length
PercentageDocument(identity, align_len, query_len) ==
    Document(<<Hit(<<"p","l","a","i","n">>, None, <<Hsp(50, 60, identity, align_len, <<"0",".","0","0","1">>)>>)>>, query_len)

\* every alignment length up to MaxAlignLen with every identity count up
\* to it and every query length up to MaxQueryLen; and larger numbers,
\* among them quotients that fall halfway between two hundredths
PercentageDocuments ==
    UNION { { PercentageDocument(i, a, q) : i \in 1..a, q \in 1..MaxQueryLen } :
              a \in 1..MaxAlignLen }
    \cup { PercentageDocument(440, 450, 500), PercentageDocument(1, 32, 64),
           PercentageDocument(3, 32, 64), PercentageDocument(2, 3, 7),
           PercentageDocument(999, 1000, 3) }

\* the longest title of the documents that EscapingDocuments enumerates
MaxTitleLen == 3

\* every text of up to MaxTitleLen characters, each one a letter or a
\* character that csv_escape looks for
Titles == UNION { [1..n -> {"a", ",", ";", "\""}] : n \in 0..MaxTitleLen }

\* a hit with every title, and with scientific names to escape
EscapingDocuments ==
    { Document(<<Hit(t, None, <<Hsp(50, 60, 45, 50, <<"0",".","0","0","1">>)>>)>>, 200) : t \in Titles }
    \cup { Document(<<Hit(<<"p","l","a","i","n">>, Some(s), <<Hsp(50, 60, 45, 50, <<"0",".","0","0","1">>)>>)>>, 200) :
             s \in { <<"x",",","y">>, <<"a",";">>, <<"\"","q","\"">>, <<>> } }

ResultDocuments ==
    AggregationDocuments \cup ScenarioDocuments \cup PercentageDocuments
    \cup EscapingDocuments

\* the service of these runs: the job is accepted, ready at the first
\* status query, and its result is any of the documents
ReadySubmitResponses == { [status_code |-> 200, text |-> <<"R","I","D"," ","="," ","Q","1","\n","R","T","O","E"," ","="," ","0","\n">>] }

ReadyStatusResponses ==
    { [status_code |-> 200, text |-> <<"Q","B","l","a","s","t","I","n","f","o","B","e","g","i","n","\n","\t","S","t","a","t","u","s","=","R","E","A","D","Y","\n","Q","B","l","a","s","t","I","n","f","o","E","n","d","\n">>] }

ReadyResultResponses == [status_code : {200}, json : ResultDocuments]

\* one query file, with a plain name or a name to escape, in either format
ResultArgv ==
    { a \o <<<<"b","l","a","s","t","n">>, <<"n","t">>, f>> :
        a \in { <<>>, <<<<"-","-","o","u","t","p","u","t">>, <<"j","s","o","n">>>> }, f \in { <<"s","e","q","/","d","n","a","1",".","f","a","s","t","a">>, <<"m",",","x",".","f","a","s","t","a">> } }

ResultInit == InitFrom(ResultArgv)

ResultNext ==
    \/ ParseArguments
    \/ ReadQuery
    \/ SubmitFrom(ReadySubmitResponses)
    \/ InitialSleep
    \/ PollSleep
    \/ StatusQueryFrom(ReadyStatusResponses)
    \/ FetchResultFrom(ReadyResultResponses)

ResultSpec == ResultInit /\ [][ResultNext]_vars

---------------------------------------------------------------------------
(* Observations of a run, for the properties below *)

Requests == SelectSeq(trace, LAMBDA e : e.kind = "request")

Submissions ==
    SelectSeq(trace, LAMBDA e : e.kind = "request" /\ e.params.CMD = <<"P","u","t">>)

ResultFetches ==
    SelectSeq(trace, LAMBDA e : e.kind = "request" /\ "FORMAT_TYPE" \in DOMAIN e.params)

Stdouts == SelectSeq(trace, LAMBDA e : e.kind = "stdout")

Stderrs == SelectSeq(trace, LAMBDA e : e.kind = "stderr")

Sleeps == SelectSeq(trace, LAMBDA e : e.kind = "sleep")

\* the status markers in their order of priority
PriorityOrder == << <<"W","A","I","T","I","N","G">>, <<"F","A","I","L","E","D">>, <<"U","N","K","N","O","W","N">>, <<"R","E","A","D","Y">> >>

\* the places in PriorityOrder of the markers present in a body
MarkersPresent(t) ==
    { k \in 1..4 : LET marker == <<"S","t","a","t","u","s","=">> \o PriorityOrder[k]
                   IN  \E i \in 1..Len(t) : IsSpace(t[i]) /\ LitAt(t, i + 1, marker) }

\* the place of the first marker of PriorityOrder present in a body, 0 for
\* a body with no marker
FirstPresent(t) ==
    LET present == MarkersPresent(t)
    IN  IF present = {} THEN 0
        ELSE CHOOSE k \in present : \A j \in present : k <= j

\* the last request issued is a status query: r is its response
AfterStatusResponse ==
    /\ Requests # <<>>
    /\ "FORMAT_OBJECT" \in DOMAIN Requests[Len(Requests)].params

---------------------------------------------------------------------------
(* Properties *)

C1_Step ==
    /\ pc = "status_query" =>
         LET k == FirstPresent(r'[1].text)
         IN  /\ k = 2 => (pc' = "done" /\ exit_code' = 4)
             /\ k = 3 => (pc' = "done" /\ exit_code' = 3)
             /\ k = 0 => (pc' = "done" /\ exit_code' = 5)
             /\ k \in {0, 2, 3} => Len(Requests') = Len(Requests) + 1
             /\ (k = 4) <=> (pc' = "fetch_result")
             /\ k = 4 => exit_code' = -1
    /\ pc # "done"
    /\ pc' = "fetch_result" => pc = "status_query"
    /\ pc # "fetch_result" => ResultFetches' = <<>>
    /\ exit_code' = 0 => pc = "fetch_result"

\* C1: every step of the run obeys the terminal statuses.  The step that
\* receives a status response whose first marker is FAILED, UNKNOWN or none
\* ends the run with exit code 4, 3 or 5, having issued that status query
\* and no result fetch, and no step follows an exit; the step that receives
\* a READY response moves on to the result fetch; only such a step reaches
\* the result fetch, only the run at the result fetch issues it, and only
\* that step sets exit code 0.
C1_TerminalStatuses == [][C1_Step]_vars

\* a run ended with code 5 by its second status response
C1_Witness ==
    /\ pc = "done"
    /\ exit_code = 5
    /\ Len(StatusQueries) = 2
    /\ FirstPresent(r[1].text) = 0

\* C2: in every state where the last request issued is a status query, the
\* run is where the first marker, in the order WAITING, FAILED, UNKNOWN,
\* READY, present in the response body sends it: back in the loop for
\* WAITING, exited with code 4 for FAILED and 3 for UNKNOWN, at the result
\* fetch for READY, exited with code 5 for a body with no marker; whatever
\* other markers the body holds.
C2_PriorityOrder ==
    AfterStatusResponse =>
        LET k == FirstPresent(r[1].text)
        IN  /\ k = 1 => (pc \in {"poll_sleep", "status_query"} /\ exit_code = -1)
            /\ k = 2 => (pc = "done" /\ exit_code = 4)
            /\ k = 3 => (pc = "done" /\ exit_code = 3)
            /\ k = 4 => (pc = "fetch_result" /\ exit_code = -1)
            /\ k = 0 => (pc = "done" /\ exit_code = 5)

\* a body with both the WAITING and the READY marker was received and the
\* run is back at the head of the loop
C2_Witness ==
    /\ AfterStatusResponse
    /\ MarkersPresent(r[1].text) = {1, 4}
    /\ pc = "poll_sleep"

\* C3: standard output is written at most once, and when it is, that is the
\* last thing the run did, right after the one result fetch, which follows
\* the READY report of the last status query, in a run that parsed its
\* arguments, submitted once without a submission failure and parsed a job
\* handle, and that exits with code 0; a run that ended with another code or
\* with an exception, or that is still running, has written nothing, and a
\* run that ended with code 0 has written exactly one record.
C3_AllOrNothing ==
    /\ Len(Stdouts) <= 1
    /\ Stdouts # <<>> =>
         /\ pc = "done" /\ exit_code = 0 /\ fault = "none"
         /\ output_format # None
         /\ Len(Submissions) = 1
         /\ \A i \in 1..Len(Stderrs) :
               Stderrs[i].msg \notin {"Failed to submit request: HTTP {}\n",
                                      "Could not parse RID or RTOE\n"}
         /\ rid # None /\ rtoe # None
         /\ StatusQueries # <<>>
         /\ Len(ResultFetches) = 1
         /\ Len(trace) >= 4
         /\ trace[Len(trace)].kind = "stdout"
         /\ trace[Len(trace) - 1] = ResultFetches[1]
         /\ trace[Len(trace) - 2].kind = "stderr"
         /\ trace[Len(trace) - 2].msg = "Search complete, retrieving results...\n"
         /\ trace[Len(trace) - 3] = StatusQueries[Len(StatusQueries)]
    /\ (pc = "done" /\ exit_code # 0) => Stdouts = <<>>
    /\ fault # "none" => Stdouts = <<>>
    /\ pc # "done" => Stdouts = <<>>
    /\ (pc = "done" /\ exit_code = 0) => Len(Stdouts) = 1

\* a run that printed its record after two status queries
C3_Witness ==
    /\ pc = "done"
    /\ exit_code = 0
    /\ Len(Stdouts) = 1
    /\ Len(StatusQueries) = 2

C4_Step ==
    /\ pc = "status_query" =>
         LET k == FirstPresent(r'[1].text)
         IN  /\ (k = 1) <=> (pc' = "poll_sleep")
             /\ k = 1 => (exit_code' = -1 /\ fault' = "none")
             /\ Len(StatusQueries') = Len(StatusQueries) + 1
    /\ pc' = "poll_sleep" => pc \in {"initial_sleep", "status_query"}
    /\ pc' = "status_query" => pc = "poll_sleep"
    /\ pc # "status_query" => Len(StatusQueries') = Len(StatusQueries)
    /\ Len(Submissions') = (IF pc \in {"parse_arguments", "read_queries"} THEN 0 ELSE 1)
    /\ Len(ResultFetches') = (IF pc' = "done" /\ pc = "fetch_result" THEN 1 ELSE 0)
    /\ pc = "submit" => pc' \in {"initial_sleep", "done"}

C4_LoopOpen ==
    /\ (pc = "poll_sleep" /\ Len(StatusQueries) < MaxPolls) => ENABLED PollSleep
    /\ pc = "status_query" => ENABLED StatusQuery
    /\ pc \in {"poll_sleep", "status_query"} => (exit_code = -1 /\ fault = "none")

\* C4: the step that receives a status response goes back to the head of
\* the loop exactly when the first marker of the response is WAITING, and
\* then the run has not exited; at the head of the loop, after any number
\* of WAITING responses below the bound MaxPolls of the model, the next
\* sleep and the next status query can be taken and the run has not
\* exited; the head of the loop is entered only from the initial sleep and
\* from a WAITING response, a status query is issued only from there, and
\* the submission and the result fetch are each issued at most once: a
\* failed submission ends the run.
C4_WaitingRetried == [][C4_Step]_vars /\ []C4_LoopOpen

\* two WAITING responses were received and the third status query is next
C4_Witness ==
    /\ pc = "status_query"
    /\ Len(StatusQueries) = 2
    /\ FirstPresent(r[1].text) = 1

---------------------------------------------------------------------------
(* The job handle, read line by line *)

\* a line without the newline that ends it
Chomp(line) ==
    IF line # <<>> /\ line[Len(line)] = "\n" THEN SubSeq(line, 1, Len(line) - 1) ELSE line

\* the value of the first line of a body that, taken alone, is of the form
\* KEY = VALUE with a value of the class, or None
FirstLineValue(t, key, class) ==
    LET lines == ReadLines(t)
        found == {i \in 1..Len(lines) : MatchKeyValue(Chomp(lines[i]), 1, key, class) # None}
    IN  IF found = {} THEN None
        ELSE MatchKeyValue(Chomp(lines[CHOOSE i \in found : \A j \in found : i <= j]),
                           1, key, class)

\* C5: after a submission answered with status 200, when the body has a
\* line RID = <token> and a line RTOE = <integer>, the job handle is that
\* token and that integer and the run goes on to the initial sleep; when
\* the body lacks either line, the run has exited with code 1 and has
\* slept, queried the status and fetched the result not once.
C5_JobHandleFromLines ==
    (Len(Requests) = 1 /\ pc \in {"initial_sleep", "done"} /\ r[1].status_code = 200) =>
        LET token == FirstLineValue(r[1].text, <<"R","I","D">>, "\\S")
            estimate == FirstLineValue(r[1].text, <<"R","T","O","E">>, "\\d")
        IN  IF token # None /\ estimate # None
              THEN /\ rid = token
                   /\ rtoe = Some(ParseInt(estimate[1]))
                   /\ pc = "initial_sleep"
              ELSE /\ pc = "done"
                   /\ exit_code = 1
                   /\ Sleeps = <<>>
                   /\ StatusQueries = <<>>
                   /\ ResultFetches = <<>>

\* C6: after a submission answered with a status of 400 or more, the run
\* has exited with code 1, the last thing it did was to write the
\* submission failure with that status code to stderr, no RID and no RTOE
\* were parsed, and it slept, queried the status and fetched the result
\* not once.
C6_SubmitTransportFailure ==
    (Len(Requests) = 1 /\ r # None /\ r[1].status_code >= 400) =>
        /\ pc = "done"
        /\ exit_code = 1
        /\ fault = "none"
        /\ trace[Len(trace)].kind = "stderr"
        /\ trace[Len(trace)].msg = "Failed to submit request: HTTP {}\n"
        /\ trace[Len(trace)].args = <<r[1].status_code>>
        /\ rid = None
        /\ rtoe = None
        /\ Sleeps = <<>>
        /\ StatusQueries = <<>>
        /\ ResultFetches = <<>>

\* a failed submission whose body held both a RID and a RTOE line
C6_Witness ==
    /\ Len(Requests) = 1
    /\ r # None
    /\ r[1].status_code = 503
    /\ FirstLineValue(r[1].text, <<"R","I","D">>, "\\S") = Some(<<"A","B","C","1","2","3">>)
    /\ FirstLineValue(r[1].text, <<"R","T","O","E">>, "\\d") = Some(<<"1","5">>)
    /\ pc = "done"

\* the result document just fetched has no hit, or a first hit with no
\* alignment segment
EmptyResult ==
    /\ pc = "done"
    /\ ResultFetches # <<>>
    /\ r[1].json # None
    /\ r[1].json[1].BlastOutput2 # <<>>
    /\ LET hits == r[1].json[1].BlastOutput2[1].hits
       IN  hits = <<>> \/ (hits[1].description # <<>> /\ hits[1].hsps = <<>>)

\* C7: a run whose result document has no hit, or whose first hit has no
\* alignment segment, ends without an unhandled exception: it reports the
\* empty result on stderr, exits with a non-zero code and prints no record.
C7_EmptyResultReported ==
    EmptyResult =>
        /\ fault = "none"
        /\ exit_code # 0
        /\ trace[Len(trace)].kind = "stderr"
        /\ Stdouts = <<>>

\* C8 as stated: a run that exits with code 3, 4 or 5 wrote a message to
\* stderr as the last thing before it exited.
C8_EveryTerminalOutcomeReported ==
    (pc = "done" /\ exit_code \in {3, 4, 5}) => trace[Len(trace)].kind = "stderr"

\* C8, amended: a run that exits with code 4 wrote, as the last thing
\* before it exited and right after the status query, that the search of
\* its RID failed, and a run that exits with code 3 wrote that the search of
\* its RID expired; a run that exits with code 5 wrote nothing after its
\* last status query.
C8_FailedAndExpiredReported ==
    (pc = "done" /\ exit_code \in {3, 4, 5}) =>
        /\ exit_code = 4 =>
             /\ trace[Len(trace)] =
                  Stderr("Search {} failed; please report to blast-help@ncbi.nlm.nih.gov.\n",
                         <<rid[1]>>)
             /\ trace[Len(trace) - 1] = StatusQueries[Len(StatusQueries)]
        /\ exit_code = 3 =>
             /\ trace[Len(trace)] = Stderr("Search {} expired.\n", <<rid[1]>>)
             /\ trace[Len(trace) - 1] = StatusQueries[Len(StatusQueries)]
        /\ exit_code = 5 =>
             /\ trace[Len(trace)] = StatusQueries[Len(StatusQueries)]

\* a run that exited with code 4 and one WAITING response before
C8_Witness ==
    /\ pc = "done"
    /\ exit_code = 4
    /\ Len(StatusQueries) = 2
    /\ trace[Len(trace)].kind = "stderr"

\* the places of the status queries in the trace
StatusQueryPlaces ==
    { i \in 1..Len(trace) :
        trace[i].kind = "request" /\ "FORMAT_OBJECT" \in DOMAIN trace[i].params }

\* the half seconds slept before place i of the trace
RECURSIVE SleptBefore(_)
SleptBefore(i) ==
    IF i <= 1 THEN 0
    ELSE SleptBefore(i - 1)
         + (IF trace[i - 1].kind = "sleep" THEN trace[i - 1].halfsecs ELSE 0)

\* C9: a run sleeps only once it has a job handle.  From then on its first
\* sleep is of RTOE/2 seconds and comes right after the report of the handle
\* that follows the submission; every later sleep is of 5 seconds; every
\* status query comes right after a sleep of 5 seconds, there is one such
\* sleep for each status query (and one more when the next query is about
\* to be issued), and the k-th status query is issued after RTOE/2 + 5k
\* seconds of sleep in all.  (Durations in half seconds.)
C9_PollTiming ==
    IF pc \in {"parse_arguments", "read_queries", "submit", "initial_sleep"}
         \/ (pc = "done" /\ StatusQueries = <<>>)
      THEN Sleeps = <<>>
      ELSE /\ Sleeps[1].halfsecs = rtoe[1]
           /\ LET p == CHOOSE i \in 1..Len(trace) :
                            trace[i].kind = "sleep"
                                /\ \A j \in 1..(i - 1) : trace[j].kind # "sleep"
              IN  /\ p >= 3
                  /\ trace[p - 1].kind = "stderr"
                  /\ trace[p - 1].args = <<rid[1], rtoe[1]>>
                  /\ trace[p - 2] = Submissions[1]
           /\ Len(Sleeps) = 1 + Len(StatusQueries) + (IF pc = "status_query" THEN 1 ELSE 0)
           /\ \A i \in 2..Len(Sleeps) : Sleeps[i].halfsecs = 2 * 5
           /\ \A p \in StatusQueryPlaces :
                /\ trace[p - 1].kind = "sleep"
                /\ trace[p - 1].halfsecs = 2 * 5
                /\ SleptBefore(p) =
                     rtoe[1] + 2 * 5 * Cardinality({q \in StatusQueryPlaces : q <= p})

\* three status queries were issued for a job of estimate 15
C9_Witness ==
    /\ Len(StatusQueries) = 3
    /\ rtoe = Some(15)
    /\ Len(Sleeps) = 4

\* C10: once the arguments are parsed, a command line with --output as
\* its only argument, with a value of --output other than json and csv, or
\* with fewer than three arguments after the leading --output and its
\* value, has made the run exit with code 1 having written one message to
\* stderr and done nothing else: no file opened, no request issued; and a
\* valid command line that does not start with --output gives the format
\* csv.
C10_CommandLine ==
    LET flag == Len(argv) >= 1 /\ argv[1] = <<"-","-","o","u","t","p","u","t">>
        positional == Len(argv) - (IF flag THEN 2 ELSE 0)
        bad == \/ flag /\ Len(argv) < 2
               \/ flag /\ Len(argv) >= 2 /\ argv[2] # <<"j","s","o","n">> /\ argv[2] # <<"c","s","v">>
               \/ positional < 3
    IN  pc # "parse_arguments" =>
            /\ bad => /\ pc = "done"
                      /\ exit_code = 1
                      /\ fault = "none"
                      /\ Len(trace) = 1
                      /\ trace[1].kind = "stderr"
                      /\ trace[1].msg \in {"USAGE", "Invalid output format. Use 'csv' or 'json'.\n"}
            /\ (~bad /\ ~flag) => output_format = Some(<<"c","s","v">>)

\* a command line with three arguments after --output xml was refused
C10_Witness ==
    /\ pc = "done"
    /\ Len(argv) = 5
    /\ argv[2] = <<"x","m","l">>
    /\ exit_code = 1

---------------------------------------------------------------------------

\* the arguments of the command line after a leading --output and its value
PositionalArgs ==
    IF Len(argv) >= 1 /\ argv[1] = <<"-","-","o","u","t","p","u","t">> THEN SubSeq(argv, 3, Len(argv)) ELSE argv

\* C11: the alias mapping is total and depends on the program argument
\* alone.  Whatever program name a valid command line gives, the arguments
\* are accepted and the program of the run is blastn for megablast, blastp
\* for rpsblast and the name as given otherwise; the submission carries
\* exactly CMD=Put, PROGRAM, DATABASE and QUERY, plus MEGABLAST=on for
\* megablast and SERVICE=rpsblast for rpsblast, whatever the database, the
\* files and the output format are.
C11_AliasMapping ==
    LET given == PositionalArgs[1]
        mapped == IF given = <<"m","e","g","a","b","l","a","s","t">> THEN <<"b","l","a","s","t","n">>
                  ELSE IF given = <<"r","p","s","b","l","a","s","t">> THEN <<"b","l","a","s","t","p">>
                  ELSE given
        base == {"CMD", "PROGRAM", "DATABASE", "QUERY"}
    IN  /\ pc # "parse_arguments" => program = Some(mapped)
        /\ Submissions # <<>> =>
              LET params == Submissions[1].params
              IN  /\ params.CMD = <<"P","u","t">>
                  /\ params.PROGRAM = mapped
                  /\ params.DATABASE = PositionalArgs[2]
                  /\ params.QUERY = encoded_query
                  /\ given = <<"m","e","g","a","b","l","a","s","t">> =>
                        /\ DOMAIN params = base \cup {"MEGABLAST"}
                        /\ params.MEGABLAST = <<"o","n">>
                  /\ given = <<"r","p","s","b","l","a","s","t">> =>
                        /\ DOMAIN params = base \cup {"SERVICE"}
                        /\ params.SERVICE = <<"r","p","s","b","l","a","s","t">>
                  /\ given \notin {<<"m","e","g","a","b","l","a","s","t">>, <<"r","p","s","b","l","a","s","t">>} => DOMAIN params = base

\* a search asked for as megablast on nr was submitted as blastn with
\* MEGABLAST=on
C11_Witness ==
    /\ PositionalArgs[1] = <<"m","e","g","a","b","l","a","s","t">>
    /\ PositionalArgs[2] = <<"n","r">>
    /\ Submissions # <<>>
    /\ Submissions[1].params.PROGRAM = <<"b","l","a","s","t","n">>
    /\ "MEGABLAST" \in DOMAIN Submissions[1].params

---------------------------------------------------------------------------

\* field of the first n segments, added up from the last one
RECURSIVE Total(_, _, _)
Total(hsps, field, n) ==
    IF n = 0 THEN 0 ELSE Total(hsps, field, n - 1) + hsps[n][field]

\* the first hit of the first report of the document a run fetched
FirstHit == r[1].json[1].BlastOutput2[1].hits[1]

\* C12: a run that printed a record computed it from the segments of the
\* first hit of the first report alone, whatever hits and reports follow:
\* max_score is the largest bit score of the segments, the printed
\* total_score is the sum of their bit scores, the raw scores, identities
\* and alignment lengths are summed into total_score (a local of main),
\* total_identity and total_align_length, and e_value is the e-value of
\* the first segment of the list, whichever segment has the smallest.
C12_Aggregation ==
    (pc = "done" /\ exit_code = 0) =>
        LET hsps == FirstHit.hsps
            n == Len(hsps)
            rec == Stdouts[1].record
            agg == Aggregate(r[1].json)
        IN  /\ n >= 1
            /\ \A i \in 1..n : rec.max_score >= hsps[i].bit_score
            /\ \E i \in 1..n : rec.max_score = hsps[i].bit_score
            /\ rec.total_score = Total(hsps, "bit_score", n)
            /\ agg.total_score = Total(hsps, "score", n)
            /\ agg.total_identity = Total(hsps, "identity", n)
            /\ agg.total_align_length = Total(hsps, "align_len", n)
            /\ rec.e_value = hsps[1].evalue
            /\ rec.description = FirstHit.description[1].title
            /\ rec.scientific_name = FirstHit.description[1].sciname
            /\ rec.accession = FirstHit.description[1].accession
            /\ rec.accession_length = FirstHit.len

\* a record was printed for a document with two hits whose first hit has
\* its largest bit score and its smallest e-value in the second segment
C12_Witness ==
    /\ pc = "done"
    /\ exit_code = 0
    /\ Len(r[1].json[1].BlastOutput2[1].hits) = 2
    /\ FirstHit.hsps = <<Hsp(80, 150, 70, 80, <<"3","e","-","0","5">>), Hsp(120, 90, 10, 30, <<"1","e","-","5","0">>)>>
    /\ Stdouts[1].record.max_score = 120
    /\ Stdouts[1].record.total_score = 200
    /\ Stdouts[1].record.e_value = <<"3","e","-","0","5">>

---------------------------------------------------------------------------

\* the run was served as in the scenario: handle Q1 and estimate 0 from
\* the submission, READY reported right after the first status query, and
\* a result document of one hit with the two segments
ScenarioServed ==
    /\ pc = "done"
    /\ rid = Some(<<"Q","1">>)
    /\ rtoe = Some(0)
    /\ \E i \in 1..(Len(trace) - 1) :
          /\ trace[i] = StatusQueries[1]
          /\ trace[i + 1] = Stderr("Search complete, retrieving results...\n", <<>>)
    /\ ResultFetches # <<>>
    /\ r[1].json # None
    /\ r[1].json[1].BlastOutput2[1].hits = <<HitTwoHsps>>

\* the query_cover of the two segments, 180 aligned positions in all, for
\* the query lengths of ScenarioDocuments
ScenarioCover(query_len) ==
    CASE query_len = 90 -> <<"2","0","0","%">>
      [] query_len = 180 -> <<"1","0","0","%">>
      [] query_len = 200 -> <<"9","0","%">>
      [] query_len = 400 -> <<"4","5","%">>

\* C13 as stated: in the scenario the run issues one status query, exits
\* 0, and its record has max_score 100, total_score 350, percent_identity
\* 88.89%, e_value 1e-20 and the query_cover of the document's query_len.
C13_ScenarioTotalIsRawSum ==
    ScenarioServed =>
        /\ Len(StatusQueries) = 1
        /\ exit_code = 0
        /\ Len(Stdouts) = 1
        /\ Stdouts[1].record.max_score = 100
        /\ Stdouts[1].record.total_score = 350
        /\ Stdouts[1].record.percent_identity = <<"8","8",".","8","9","%">>
        /\ Stdouts[1].record.e_value = <<"1","e","-","2","0">>
        /\ Stdouts[1].record.query_cover =
              ScenarioCover(r[1].json[1].BlastOutput2[1].query_len)

\* C13, amended: in the scenario the run issues one status query, exits
\* 0, and prints one record with max_score 100, total_score 180 (the sum
\* of the bit scores), percent_identity 88.89%, e_value 1e-20 and the
\* query_cover of the document's query_len; the sum of the raw scores,
\* 350, is computed and printed nowhere.
C13_Scenario ==
    ScenarioServed =>
        /\ Len(StatusQueries) = 1
        /\ exit_code = 0
        /\ Len(Stdouts) = 1
        /\ Stdouts[1].record.max_score = 100
        /\ Stdouts[1].record.total_score = 180
        /\ Aggregate(r[1].json).total_score = 350
        /\ \A field \in {"max_score", "total_score", "accession_length", "query_length"} :
              Stdouts[1].record[field] # 350
        /\ Stdouts[1].record.percent_identity = <<"8","8",".","8","9","%">>
        /\ Stdouts[1].record.e_value = <<"1","e","-","2","0">>
        /\ Stdouts[1].record.query_cover =
              ScenarioCover(r[1].json[1].BlastOutput2[1].query_len)

\* the scenario was run with a query length of 400 and JSON output
C13_Witness ==
    /\ ScenarioServed
    /\ r[1].json[1].BlastOutput2[1].query_len = 400
    /\ output_format = Some(<<"j","s","o","n">>)
    /\ Stdouts[1].record.query_cover = <<"4","5","%">>

---------------------------------------------------------------------------

\* the number a text of decimal digits writes
RECURSIVE NumberOf(_)
NumberOf(digits) ==
    IF digits = <<>> THEN 0
    ELSE 10 * NumberOf(SubSeq(digits, 1, Len(digits) - 1))
         + (CHOOSE v \in 0..9 : Digits[v + 1] = digits[Len(digits)])

\* text is a number written without sign, exponent or leading zero
IsPlainNumber(text) ==
    /\ text # <<>>
    /\ \A i \in 1..Len(text) : text[i] \in {"0", "1", "2", "3", "4", "5", "6", "7", "8", "9"}
    /\ Len(text) > 1 => text[1] # "0"

\* text is digits followed by %, and the integer it writes is a nearest
\* integer to 100 * part / whole
IsWholePercentage(text, part, whole) ==
    /\ Len(text) >= 2
    /\ text[Len(text)] = "%"
    /\ IsPlainNumber(SubSeq(text, 1, Len(text) - 1))
    /\ LET n == NumberOf(SubSeq(text, 1, Len(text) - 1))
       IN  /\ 2 * (100 * part - n * whole) <= whole
           /\ 2 * (n * whole - 100 * part) <= whole

\* text is digits, a point, two digits and %, and the number of hundredths
\* it writes is a nearest integer to 10000 * part / whole
IsTwoDecimalPercentage(text, part, whole) ==
    /\ Len(text) >= 5
    /\ text[Len(text)] = "%"
    /\ text[Len(text) - 3] = "."
    /\ IsPlainNumber(SubSeq(text, 1, Len(text) - 4))
    /\ \A i \in {Len(text) - 2, Len(text) - 1} :
           text[i] \in {"0", "1", "2", "3", "4", "5", "6", "7", "8", "9"}
    /\ LET h == 100 * NumberOf(SubSeq(text, 1, Len(text) - 4))
                 + NumberOf(SubSeq(text, Len(text) - 2, Len(text) - 1))
       IN  /\ 2 * (10000 * part - h * whole) <= whole
           /\ 2 * (h * whole - 10000 * part) <= whole

\* C14: in every printed record, query_cover is the integer nearest to
\* 100 * total_align_length / query_len written without decimals and
\* followed by %, and percent_identity is 100 * total_identity /
\* total_align_length written with two decimals, rounded to the nearest
\* hundredth, and followed by %: 450 of 500 gives 90%, 440 of 450 gives
\* 97.78%.
C14_Percentages ==
    (pc = "done" /\ exit_code = 0) =>
        LET hsps == FirstHit.hsps
            total_align_length == Total(hsps, "align_len", Len(hsps))
            total_identity == Total(hsps, "identity", Len(hsps))
            query_len == r[1].json[1].BlastOutput2[1].query_len
            rec == Stdouts[1].record
        IN  /\ IsWholePercentage(rec.query_cover, total_align_length, query_len)
            /\ IsTwoDecimalPercentage(rec.percent_identity, total_identity,
                                      total_align_length)
            /\ (total_align_length = 450 /\ query_len = 500) => rec.query_cover = <<"9","0","%">>
            /\ (total_identity = 440 /\ total_align_length = 450) =>
                   rec.percent_identity = <<"9","7",".","7","8","%">>

\* the record of 440 identities over 450 aligned positions of a query of
\* length 500 was printed
C14_Witness ==
    /\ pc = "done"
    /\ exit_code = 0
    /\ FirstHit.hsps[1].identity = 440
    /\ FirstHit.hsps[1].align_len = 450
    /\ r[1].json[1].BlastOutput2[1].query_len = 500
    /\ Stdouts[1].record.query_cover = <<"9","0","%">>
    /\ Stdouts[1].record.percent_identity = <<"9","7",".","7","8","%">>

---------------------------------------------------------------------------

\* the query files of the command line
QueryArgs == SubSeq(PositionalArgs, 3, Len(PositionalArgs))

\* the text of a file without its first line, when that line starts with >
WithoutHeader(text) ==
    IF text = <<>> \/ text[1] # ">" THEN text
    ELSE LET ends == { i \in 1..Len(text) : text[i] = "\n" }
         IN  IF ends = {} THEN <<>>
             ELSE SubSeq(text, (CHOOSE i \in ends : \A k \in ends : i <= k) + 1, Len(text))

WithoutLineEnds(text) == SelectSeq(text, LAMBDA c : c # "\n" /\ c # "\r")

\* the name of each file without its directory and its extension
ExpectedBasename(path) ==
    CASE path = <<"s","e","q","/","d","n","a","1",".","f","a","s","t","a">> -> <<"d","n","a","1">>
      [] path = <<"p",".","f","a">> -> <<"p">>
      [] path = <<"h",".","f","a">> -> <<"h">>
      [] path = <<"m",",","x",".","f","a","s","t","a">> -> <<"m",",","x">>
      [] path = <<"d",".","1","/","n">> -> <<"n">>
      [] path = <<"e",".","f","a">> -> <<"e">>

\* the text that a percent-encoded text encodes
RECURSIVE PercentDecoded(_)
PercentDecoded(s) ==
    IF s = <<>> THEN <<>>
    ELSE IF s[1] # "%" THEN <<s[1]>> \o PercentDecoded(Tail(s))
    ELSE (CASE SubSeq(s, 2, 3) = <<"0","A">> -> <<"\n">>
            [] SubSeq(s, 2, 3) = <<"2","0">> -> <<" ">>
            [] SubSeq(s, 2, 3) = <<"3","E">> -> <<">">>)
         \o PercentDecoded(SubSeq(s, 4, Len(s)))

\* the texts of the first n files of a list, one after the other
RECURSIVE TextsOf(_, _)
TextsOf(paths, n) ==
    IF n = 0 THEN <<>> ELSE TextsOf(paths, n - 1) \o FileAt(paths[n]).text

\* the files opened so far, in order
Opens == SelectSeq(trace, LAMBDA e : e.kind = "open")

\* C15: basename and sequence come from the first query file alone.  They
\* are empty until the first file is processed; from then on, however
\* many files follow and whatever they hold, basename is the name of the
\* first file without directory and extension and sequence is its text
\* with a first line starting with > dropped and every line end removed.
\* The first file is read a second time, for these two values, once and
\* right after its first reading, and no other file is; every file
\* processed has its text appended to the encoded payload, in the order
\* of the arguments.
C15_FirstFileOnly ==
    /\ qi = 0 => (basename = <<>> /\ sequence = <<>>)
    /\ qi >= 1 =>
          /\ basename = ExpectedBasename(QueryArgs[1])
          /\ sequence = WithoutLineEnds(WithoutHeader(FileAt(QueryArgs[1]).text))
          /\ Len(Opens) \in {qi + 1, qi + 2}
          /\ Opens[1].path = QueryArgs[1]
          /\ Opens[2].path = QueryArgs[1]
          /\ \A k \in 2..qi : Opens[k + 1].path = QueryArgs[k]
          /\ Len(Opens) = qi + 2 =>
                (fault = "FileNotFoundError" /\ Opens[qi + 2].path = QueryArgs[qi + 1])
    /\ PercentDecoded(encoded_query) = TextsOf(QueryArgs, qi)

\* two files were processed, the second one with a header line of its
\* own, and the values are those of the first
C15_Witness ==
    /\ qi = 2
    /\ QueryArgs = <<<<"s","e","q","/","d","n","a","1",".","f","a","s","t","a">>, <<"h",".","f","a">>>>
    /\ basename = <<"d","n","a","1">>
    /\ sequence = <<"A","C","G","T","A","C">>
    /\ encoded_query = <<"%","3","E","s","1","%","2","0","x","%","0","A","A","C","G","T","%","0","A","A","C","%","0","A","%","3","E","o","n","l","y","%","0","A">>

---------------------------------------------------------------------------

\* the number of double quotes among the first i characters of s
QuotesUpTo(s, i) == Cardinality({ k \in 1..i : s[k] = "\"" })

\* s between two double quotes, each double quote of s written twice:
\* character i of s stands at place i + 1 + QuotesUpTo(s, i - 1), and a
\* double quote at the next place as well
Quoted(s) ==
    LET n == Len(s) + QuotesUpTo(s, Len(s)) + 2
    IN  [j \in 1..n |->
            IF j = 1 \/ j = n THEN "\""
            ELSE s[CHOOSE i \in 1..Len(s) :
                      /\ i + 1 + QuotesUpTo(s, i - 1) <= j
                      /\ j <= i + 1 + QuotesUpTo(s, i)]]

\* the rendering of a field value of string form s
Rendered(s) ==
    IF \E i \in 1..Len(s) : s[i] = "," \/ s[i] = ";" \/ s[i] = "\"" THEN Quoted(s) ELSE s

\* the string forms of the twelve values of a record, in the order of
\* the CSV line
StringForms(rec) ==
    <<rec.basename, rec.description,
      IF rec.scientific_name = None THEN <<"N","o","n","e">> ELSE rec.scientific_name[1],
      StrNat(rec.max_score), StrNat(rec.total_score), rec.query_cover, rec.e_value,
      rec.percent_identity, StrNat(rec.accession_length), rec.accession,
      StrNat(rec.query_length), rec.sequence>>

\* the renderings of the first n of the values, a comma after each
RECURSIVE RenderedFields(_, _)
RenderedFields(values, n) ==
    IF n = 0 THEN <<>>
    ELSE RenderedFields(values, n - 1) \o Rendered(values[n]) \o <<",">>

\* C16: the CSV line a run prints is the twelve values basename,
\* description, scientific_name, max_score, total_score, query_cover,
\* e_value, percent_identity, accession_length, accession, query_length,
\* sequence, in this order and with a comma between two of them, each
\* value written as its string form when that holds no comma, semicolon
\* or double quote, and otherwise between double quotes with each of its
\* double quotes written twice: Gene, "X" variant becomes
\* "Gene, ""X"" variant".
C16_CsvLine ==
    /\ \A i \in 1..Len(Stdouts) :
          Stdouts[i].format = "csv" =>
              LET values == StringForms(Stdouts[i].record)
                  line == Stdouts[i].text
              IN  /\ line = RenderedFields(values, 11) \o Rendered(values[12]) \o <<"\n">>
                  /\ values[2] = <<"G","e","n","e",","," ","\"","X","\""," ","v","a","r","i","a","n","t">> =>
                        SubSeq(line, Len(Rendered(values[1])) + 2,
                               Len(Rendered(values[1])) + 22) = <<"\"","G","e","n","e",","," ","\"","\"","X","\"","\""," ","v","a","r","i","a","n","t","\"">>
    /\ (pc = "done" /\ exit_code = 0 /\ output_format = Some(<<"c","s","v">>)) => Len(Stdouts) = 1

\* the record of the file m,x.fasta and of the hit Gene, "X" variant was
\* printed as a CSV line
C16_Witness ==
    /\ Len(Stdouts) = 1
    /\ Stdouts[1].text =
         <<"\"","m",",","x","\"",",","\"","G","e","n","e",","," ","\"","\"","X","\"","\""," ","v","a","r","i","a","n","t","\"",",","H","o","m","o"," ","s","a","p","i","e","n","s",",","1","0","0",",","1","8","0",",","9","0","%",",","1","e","-","2","0",",","8","8",".","8","9","%",",","1","2","0","0",",","N","M","_","1",",","2","0","0",",","A","C",">","x","G","T","\n">>

---------------------------------------------------------------------------

IsSubmission(e) == e.kind = "request" /\ e.params.CMD = <<"P","u","t">>

IsStatusQuery(e) ==
    /\ e.kind = "request"
    /\ DOMAIN e.params = {"CMD", "FORMAT_OBJECT", "RID"}
    /\ e.params.CMD = <<"G","e","t">>
    /\ e.params.FORMAT_OBJECT = <<"S","e","a","r","c","h","I","n","f","o">>

IsResultFetch(e) ==
    /\ e.kind = "request"
    /\ DOMAIN e.params = {"CMD", "FORMAT_TYPE", "RID"}
    /\ e.params.CMD = <<"G","e","t">>
    /\ e.params.FORMAT_TYPE = <<"J","S","O","N","2","_","S">>

\* the requests issued so far are one submission, then status queries,
\* then at most one result fetch, all but the submission carrying rid; a
\* result fetch comes right after the report of READY that follows the
\* last status query; a run that has ended with a job handle has issued a
\* status query, and one without handle neither query nor fetch
C17_Sequence ==
    LET n == Len(Requests)
        handle == rid # None /\ rtoe # None
    IN  /\ n >= 1 => IsSubmission(Requests[1])
        /\ \A i \in 2..n :
              /\ IsStatusQuery(Requests[i]) \/ IsResultFetch(Requests[i])
              /\ handle
              /\ Requests[i].params.RID = rid[1]
              /\ IsResultFetch(Requests[i]) => (i = n /\ i >= 3 /\ IsStatusQuery(Requests[i - 1]))
        /\ \A j \in 1..Len(trace) :
              IsResultFetch(trace[j]) =>
                  /\ j >= 3
                  /\ trace[j - 1] = Stderr("Search complete, retrieving results...\n", <<>>)
                  /\ IsStatusQuery(trace[j - 2])
        /\ (pc = "done" /\ handle) => Len(StatusQueries) >= 1
        /\ (pc = "done" /\ handle) =>
              (Len(ResultFetches) = 1
                 <=> \E j \in 1..Len(trace) :
                        trace[j] = Stderr("Search complete, retrieving results...\n", <<>>))
        /\ Len(ResultFetches) <= 1

\* a step issues at most one request and holds its response when it ends;
\* rid is set by the submission step, to what the submission response
\* holds, and never changes again; a result fetch is issued only by the
\* step that follows a status response whose body is classified READY
C17_Step ==
    /\ Len(trace') > Len(trace) =>
          LET issued == SelectSeq(SubSeq(trace', Len(trace) + 1, Len(trace')),
                                  LAMBDA e : e.kind = "request")
          IN  /\ Len(issued) <= 1
              /\ Len(issued) = 1 => r' # None
              /\ (Len(issued) = 1 /\ IsResultFetch(issued[1])) =>
                    /\ pc = "fetch_result"
                    /\ AfterStatusResponse
                    /\ FirstPresent(r[1].text) = 4
    /\ rid # None => rid' = rid
    /\ (rid = None /\ rid' # None) =>
          /\ pc = "submit"
          /\ Requests = <<>>
          /\ rid' = ParseRid(r'[1].text)

\* C17: the requests of a run are one submission, then status queries,
\* then at most one result fetch; a run that ends with a job handle has
\* issued at least one status query; the result fetch is issued once,
\* and only after a status response classified READY; nothing is
\* requested after it; each request is answered before the next is
\* issued; the status queries and the fetch carry the identifier parsed
\* from the submission response, which never changes.
C17_RequestSequence == []C17_Sequence /\ [][C17_Step]_vars

\* a run ended after a submission, two status queries and a result fetch
C17_Witness ==
    /\ pc = "done"
    /\ Len(Requests) = 4
    /\ IsSubmission(Requests[1])
    /\ IsStatusQuery(Requests[2])
    /\ IsStatusQuery(Requests[3])
    /\ IsResultFetch(Requests[4])
    /\ Requests[4].params.RID = rid[1]

---------------------------------------------------------------------------

\* the response just received is a status response not classified WAITING
NonWaitingAnswered == AfterStatusResponse /\ FirstPresent(r[1].text) # 1

\* the run has ended with one of the exit codes of the poll loop and of
\* the result stage, or with an exception raised in the result stage
Terminated ==
    /\ pc = "done"
    /\ \/ exit_code \in {0, 3, 4, 5}
       \/ exit_code = 1 /\ fault # "none" /\ ResultFetches # <<>>

\* the job was accepted and every status query issued so far was answered
\* WAITING
OnlyWaitingSoFar ==
    /\ rid # None
    /\ rtoe # None
    /\ \A j \in 1..Len(trace) :
          IsStatusQuery(trace[j]) =>
              (j < Len(trace) /\ trace[j + 1] = Stderr("Searching...\n", <<>>))

\* C18: when every call returns, a status response that is not classified
\* WAITING is followed by the end of the run, with exit code 0, 3, 4 or 5
\* or an exception of the result stage; and as long as every status
\* response has been WAITING the run has not ended and has printed
\* nothing, and it goes on to its next status query (up to the MaxPolls
\* queries of the model).
C18_Termination ==
    /\ NonWaitingAnswered ~> Terminated
    /\ [](OnlyWaitingSoFar => (pc # "done" /\ exit_code = -1 /\ Stdouts = <<>>))
    /\ \A n \in 0..(MaxPolls - 1) :
          (OnlyWaitingSoFar /\ Len(StatusQueries) = n) ~> (Len(StatusQueries) > n)

\* a run ended with code 3 at its second status query, the first one
\* having been answered WAITING
C18_Witness ==
    /\ Terminated
    /\ exit_code = 3
    /\ Len(StatusQueries) = 2
    /\ \E j \in 1..Len(trace) : trace[j] = Stderr("Searching...\n", <<>>)

---------------------------------------------------------------------------

\* C19: what the run does after a status response is decided by the body
\* of the response, whatever its HTTP status is, a failure status
\* included: with the WAITING marker first the run stays in the loop,
\* with READY first it goes on to the result fetch, with FAILED or
\* UNKNOWN first it exits with 4 or 3, with no marker it exits with 5; it
\* never exits with 1.
C19_StatusCodeIgnored ==
    AfterStatusResponse =>
        LET k == FirstPresent(r[1].text)
        IN  /\ r[1].status_code \in StatusCodes
            /\ k = 1 => (pc \in {"poll_sleep", "status_query"} /\ exit_code = -1)
            /\ k = 4 => (pc = "fetch_result" /\ exit_code = -1)
            /\ k = 2 => (pc = "done" /\ exit_code = 4)
            /\ k = 3 => (pc = "done" /\ exit_code = 3)
            /\ k = 0 => (pc = "done" /\ exit_code = 5)
            /\ exit_code # 1
            /\ fault = "none"

\* the second status query was answered with HTTP status 503 and the
\* READY marker, and the run is about to fetch the result
C19_Witness ==
    /\ AfterStatusResponse
    /\ r[1].status_code = 503
    /\ FirstPresent(r[1].text) = 4
    /\ pc = "fetch_result"
    /\ Len(StatusQueries) = 2

=============================================================================
